---- MODULE Spec2Model ----
(***************************************************************************)
(* Model of the symbolizer package: the lexer (token scanner) and the      *)
(* cursor Parser built on it.  Characters are Unicode code points          *)
(* (integers), the input is the rune slice lexer.symbols, strings are      *)
(* sequences of code points, and the cursor is the 0-based Go index.       *)
(***************************************************************************)
EXTENDS Integers, Sequences, FiniteSets, TLC

VARIABLES symbols, eatSpaces, keywords, cursor, curr, next, status, op, ret, toks

vars == <<symbols, eatSpaces, keywords, cursor, curr, next, status, op, ret, toks>>

(***************************************************************************)
(* Bounds of the model.                                                    *)
(***************************************************************************)
MaxLexLen == 4
MaxParseLen == 4

\* Calls of next() a scan is followed for: one more than any scan that
\* consumes a character per token needs.
MaxCalls == MaxLexLen + 2

(***************************************************************************)
(* Token kinds.                                                            *)
(***************************************************************************)
TokenEoF == -1
TokenIdent == -2
TokenNumber == -3
TokenString == -4
TokenBoolean == -5
TokenHexNumber == -6
TokenMalformed == -7
CustomKind == -10

(***************************************************************************)
(* The code points the inputs are drawn from.                              *)
(***************************************************************************)
Quote == 34
LParen == 40
RParen == 41
Minus == 45
Zero == 48
LetterA == 97
LetterX == 120
Space == 32
Underscore == 95
EAcute == 233
ArabicThree == 1635

Token(kind, literal, position) ==
    [Kind |-> kind, Literal |-> literal, Position |-> position]

ZeroToken == Token(0, <<>>, 0)

\* UnicodeToken that takes its kind from the negative range.
UnicodeToken_NegativeKind(ch, pos) == Token(0 - ch, <<ch>>, pos)

UnicodeToken(ch, pos) == Token(ch, <<ch>>, pos)

EOFToken(pos) == Token(TokenEoF, <<>>, pos)

(***************************************************************************)
(* Character classes of package unicode, on the Latin-1 range and the      *)
(* Arabic-Indic digits.                                                    *)
(***************************************************************************)
IsSpace(ch) == ch \in {9, 10, 11, 12, 13, 32, 133, 160}

IsDigit(ch) == (48 <= ch /\ ch <= 57) \/ (1632 <= ch /\ ch <= 1641)

IsLetter(ch) ==
    \/ (65 <= ch /\ ch <= 90)
    \/ (97 <= ch /\ ch <= 122)
    \/ ch \in {170, 181, 186}
    \/ (192 <= ch /\ ch <= 255 /\ ch \notin {215, 247})

isDecChar(ch) == 48 <= ch /\ ch <= 57

isHexChar(ch) ==
    (97 <= ch /\ ch <= 102) \/ (65 <= ch /\ ch <= 70) \/ isDecChar(ch)

(***************************************************************************)
(* The lexer.                                                              *)
(***************************************************************************)
done(s, c) == c >= Len(s)

char(s, c) == IF done(s, c) THEN TokenEoF ELSE s[c + 1]

\* symbols[cursor+1] is an index out of range when the cursor is on the
\* last character: the runtime panics.
peek(s, c) ==
    IF done(s, c) THEN [panic |-> FALSE, rune |-> TokenEoF]
    ELSE IF c + 1 < Len(s) THEN [panic |-> FALSE, rune |-> s[c + 2]]
    ELSE [panic |-> TRUE, rune |-> TokenEoF]

collectBetween(s, start, stop) == SubSeq(s, start + 1, stop)

\* consumeSpaces that skips at most one whitespace character.
consumeSpaces_One(s, c) == IF IsSpace(char(s, c)) THEN c + 1 ELSE c

RECURSIVE consumeSpaces(_, _)
consumeSpaces(s, c) ==
    IF IsSpace(char(s, c)) THEN consumeSpaces(s, c + 1) ELSE c

\* lookupKeyword that never consults the table.
lookupKeyword_AlwaysIdent(kw, ident) == TokenIdent

lookupKeyword(kw, ident) ==
    IF ident \in DOMAIN kw THEN kw[ident] ELSE TokenIdent

RECURSIVE identEnd(_, _)
identEnd(s, c) ==
    IF IsLetter(char(s, c)) \/ IsDigit(char(s, c)) \/ char(s, c) = Underscore
    THEN identEnd(s, c + 1) ELSE c

scanIdentOrKeyword(s, kw, c) ==
    LET stop == identEnd(s, c)
        identifier == collectBetween(s, c, stop)
    IN  [token |-> Token(lookupKeyword(kw, identifier), identifier, c),
         cursor |-> stop]

\* The cursor after the advance/test loop of scanString: the first index
\* after c that holds a quote or lies past the end.
RECURSIVE stringEnd(_, _)
stringEnd(s, c) ==
    IF char(s, c + 1) = Quote \/ char(s, c + 1) = TokenEoF THEN c + 1
    ELSE stringEnd(s, c + 1)

\* scanString that, on the unterminated path, steps the cursor back to just
\* before the opening quote when there is a character before it.
scanString_StepBackToStart(s, c) ==
    LET stop == stringEnd(s, c)
    IN  IF char(s, stop) = Quote
        THEN [token |-> Token(TokenString, collectBetween(s, c, stop + 1), c),
              cursor |-> stop]
        ELSE [token |-> Token(TokenMalformed, collectBetween(s, c, stop), c),
              cursor |-> IF c >= 2 THEN c - 2 ELSE stop - 1]

\* scanString that does not step the cursor back on the unterminated path.
scanString_NoStepBack(s, c) ==
    LET stop == stringEnd(s, c)
    IN  IF char(s, stop) = Quote
        THEN [token |-> Token(TokenString, collectBetween(s, c, stop + 1), c),
              cursor |-> stop]
        ELSE [token |-> Token(TokenMalformed, collectBetween(s, c, stop), c),
              cursor |-> stop]

\* scanString with the literal ending before the closing quote.
scanString_NoClosingQuote(s, c) ==
    LET stop == stringEnd(s, c)
    IN  IF char(s, stop) = Quote
        THEN [token |-> Token(TokenString, collectBetween(s, c, stop), c),
              cursor |-> stop]
        ELSE [token |-> Token(TokenMalformed, collectBetween(s, c, stop), c),
              cursor |-> stop - 1]

\* scanString with the literal taken from after the opening quote.
scanString_NoOpeningQuote(s, c) ==
    LET stop == stringEnd(s, c)
    IN  IF char(s, stop) = Quote
        THEN [token |-> Token(TokenString, collectBetween(s, c + 1, stop + 1), c),
              cursor |-> stop]
        ELSE [token |-> Token(TokenMalformed, collectBetween(s, c + 1, stop), c),
              cursor |-> stop - 1]

\* The cursor scanString leaves; next() advances it once more.
scanString(s, c) ==
    LET stop == stringEnd(s, c)
    IN  IF char(s, stop) = Quote
        THEN [token |-> Token(TokenString, collectBetween(s, c, stop + 1), c),
              cursor |-> stop]
        ELSE [token |-> Token(TokenMalformed, collectBetween(s, c, stop), c),
              cursor |-> stop - 1]

RECURSIVE decEnd(_, _)
decEnd(s, c) == IF isDecChar(char(s, c)) THEN decEnd(s, c + 1) ELSE c

\* scanNumeric that positions the token after its sign.
scanNumeric_PositionAfterSign(s, c) ==
    LET from == IF char(s, c) = Minus THEN c + 1 ELSE c
        stop == decEnd(s, from)
    IN  [token |-> Token(TokenNumber, collectBetween(s, c, stop), from),
         cursor |-> stop]

scanNumeric(s, c) ==
    LET from == IF char(s, c) = Minus THEN c + 1 ELSE c
        stop == decEnd(s, from)
    IN  [token |-> Token(TokenNumber, collectBetween(s, c, stop), c),
         cursor |-> stop]

RECURSIVE hexEnd(_, _)
hexEnd(s, c) == IF isHexChar(char(s, c)) THEN hexEnd(s, c + 1) ELSE c

scanHexadecimal(s, c) ==
    LET stop == hexEnd(s, c + 2)
    IN  [token |-> Token(TokenHexNumber, collectBetween(s, c, stop), c),
         cursor |-> stop]

Returned(r) == [token |-> r.token, cursor |-> r.cursor, status |-> "ok"]

Panicked(c) == [token |-> ZeroToken, cursor |-> c, status |-> "panic"]

\* lexer.next: the token returned, the cursor left and whether the call
\* returned or panicked.
lexer_next(s, eat, kw, c0) ==
    LET c == IF eat THEN consumeSpaces(s, c0) ELSE c0
        symbol == char(s, c)
        single == [token |-> UnicodeToken(symbol, c), cursor |-> c + 1]
    IN  IF symbol = TokenEoF
            THEN Returned([token |-> EOFToken(c), cursor |-> c + 1])
        ELSE IF symbol = Quote
            THEN LET r == scanString(s, c)
                 IN  Returned([token |-> r.token, cursor |-> r.cursor + 1])
        ELSE IF symbol = Zero
            THEN IF peek(s, c).panic THEN Panicked(c)
                 ELSE IF peek(s, c).rune = LetterX
                      THEN Returned(scanHexadecimal(s, c))
                      ELSE Returned(scanNumeric(s, c))
        ELSE IF IsDigit(symbol)
            THEN Returned(scanNumeric(s, c))
        ELSE IF IsLetter(symbol)
            THEN Returned(scanIdentOrKeyword(s, kw, c))
        ELSE IF symbol = Minus
            THEN IF peek(s, c).panic THEN Panicked(c)
                 ELSE IF isDecChar(peek(s, c).rune)
                      THEN Returned(scanNumeric(s, c))
                      ELSE Returned(single)
        ELSE Returned(single)

\* lexer.tokens: the tokens from cursor c up to the first End-of-input, and
\* whether the loop ended.  A call that leaves the cursor where it was
\* without returning End-of-input repeats for ever.
RECURSIVE lexer_tokens(_, _, _, _)
lexer_tokens(s, eat, kw, c) ==
    LET r == lexer_next(s, eat, kw, c)
    IN  IF r.status # "ok" THEN [tokens |-> <<>>, status |-> r.status]
        ELSE IF r.token.Kind = TokenEoF
            THEN [tokens |-> <<r.token>>, status |-> "ok"]
        ELSE IF r.cursor = c
            THEN [tokens |-> <<r.token>>, status |-> "hang"]
        ELSE LET rest == lexer_tokens(s, eat, kw, r.cursor)
             IN  [tokens |-> <<r.token>> \o rest.tokens, status |-> rest.status]

(***************************************************************************)
(* Inputs and configurations.                                              *)
(***************************************************************************)
RECURSIVE StringsUpTo(_, _)
StringsUpTo(alphabet, n) ==
    IF n = 0 THEN {<<>>}
    ELSE LET shorter == StringsUpTo(alphabet, n - 1)
         IN  shorter \cup {Append(w, ch) : w \in shorter, ch \in alphabet}

LexAlphabet ==
    {Quote, Zero, LetterX, Minus, LetterA, Space, ArabicThree, Underscore}

NoKeywords == <<>>

CustomKeywords == [w \in {<<LetterA>>, <<EAcute>>} |-> CustomKind]

KeywordTables == {NoKeywords, CustomKeywords}

RECURSIVE Concat(_)
Concat(ss) == IF ss = <<>> THEN <<>> ELSE Head(ss) \o Concat(Tail(ss))

Literals(ts) == [i \in 1..Len(ts) |-> ts[i].Literal]

NoResult == [kind |-> "none"]

(***************************************************************************)
(* The scanner on its own: next() called time after time, as tokens()      *)
(* does, until it returns End-of-input.                                    *)
(***************************************************************************)
InitLexer ==
    /\ symbols \in StringsUpTo(LexAlphabet, MaxLexLen)
    /\ eatSpaces \in BOOLEAN
    /\ keywords \in KeywordTables
    /\ cursor = 0
    /\ curr = ZeroToken
    /\ next = ZeroToken
    /\ status = "ok"
    /\ op = "lexer"
    /\ ret = NoResult
    /\ toks = <<>>

ScanOver == toks # <<>> /\ toks[Len(toks)].Kind = TokenEoF

LexerNext ==
    /\ op = "lexer"
    /\ status = "ok"
    /\ ~ScanOver
    /\ Len(toks) < MaxCalls
    /\ LET r == lexer_next(symbols, eatSpaces, keywords, cursor)
       IN  /\ cursor' = r.cursor
           /\ status' = r.status
           /\ toks' = IF r.status = "ok" THEN Append(toks, r.token) ELSE toks
    /\ ret' = [kind |-> "next", pre |-> cursor]
    /\ UNCHANGED <<symbols, eatSpaces, keywords, curr, next, op>>

NextLexer == LexerNext

SpecLexer == InitLexer /\ [][NextLexer]_vars

(***************************************************************************)
(* The Parser: the scanner cursor and the two buffered tokens.             *)
(***************************************************************************)
ParserState(c, cu, nx) == [cursor |-> c, curr |-> cu, next |-> nx]

Here == ParserState(cursor, curr, next)

\* Advance that draws two tokens from the scanner and keeps the second.
Advance_DrawTwo(s, eat, kw, P) ==
    LET r1 == lexer_next(s, eat, kw, P.cursor)
        r2 == IF r1.status = "ok" THEN lexer_next(s, eat, kw, r1.cursor) ELSE r1
    IN  [parser |-> ParserState(r2.cursor, P.next, r2.token), status |-> r2.status]

\* Parser.Advance: the parser after the call and whether next() returned.
Advance(s, eat, kw, P) ==
    LET r == lexer_next(s, eat, kw, P.cursor)
    IN  [parser |-> ParserState(r.cursor, P.next, r.token), status |-> r.status]

\* string(symbols): the UTF-8 bytes of the code points.
EncodeRune(ch) ==
    IF ch < 128 THEN <<ch>>
    ELSE IF ch < 2048 THEN <<192 + (ch \div 64), 128 + (ch % 64)>>
    ELSE IF ch < 65536
        THEN <<224 + (ch \div 4096), 128 + ((ch \div 64) % 64), 128 + (ch % 64)>>
    ELSE <<240 + (ch \div 262144), 128 + ((ch \div 4096) % 64),
           128 + ((ch \div 64) % 64), 128 + (ch % 64)>>

RECURSIVE EncodeString(_)
EncodeString(rs) ==
    IF rs = <<>> THEN <<>> ELSE EncodeRune(Head(rs)) \o EncodeString(Tail(rs))

\* Parser.Unparsed: string(symbols)[curr.Position:], a slice of bytes taken
\* at a character index; slicing past the last byte panics.
Unparsed(s, cu) ==
    LET bytes == EncodeString(s)
    IN  IF cu.Position > Len(bytes)
        THEN [panic |-> TRUE, bytes |-> <<>>]
        ELSE [panic |-> FALSE,
              bytes |-> SubSeq(bytes, cu.Position + 1, Len(bytes))]

Outcome(P, st, val, err) ==
    [parser |-> P, status |-> st, val |-> val, err |-> err]

\* The loop of Parser.Split from parser state P with the splits and the
\* accumulator built so far.  The loop leaves only at an End-of-input token
\* that is not the delimiter; a scanner that no longer moves on a token
\* other than End-of-input keeps it turning for ever.
RECURSIVE SplitLoop(_, _, _, _, _, _, _)
SplitLoop(s, eat, kw, P, delimiter, splits, accumulator) ==
    IF P.curr.Kind # delimiter /\ P.curr.Kind = TokenEoF
    THEN Outcome(P, "ok", Append(splits, accumulator), "")
    ELSE LET a == Advance(s, eat, kw, P)
             splits2 == IF P.curr.Kind = delimiter
                        THEN Append(splits, accumulator) ELSE splits
             acc2 == IF P.curr.Kind = delimiter THEN <<>>
                     ELSE accumulator \o P.curr.Literal
         IN  IF a.status # "ok" THEN Outcome(a.parser, a.status, <<>>, "")
             ELSE IF delimiter = TokenEoF /\ P.curr.Kind = TokenEoF
                 THEN Outcome(a.parser, "hang", <<>>, "")
             ELSE IF a.parser = P
                 THEN Outcome(a.parser, "hang", <<>>, "")
             ELSE SplitLoop(s, eat, kw, a.parser, delimiter, splits2, acc2)

\* Split that returns without advancing when it is called on a delimiter.
Split_StopAtDelimiter(s, eat, kw, P, delimiter) ==
    IF P.curr.Kind = delimiter
    THEN Outcome(P, "ok", << <<>> >>, "")
    ELSE SplitLoop(s, eat, kw, P, delimiter, <<>>, <<>>)

\* Split that drops a final empty string.
Split_DropTrailingEmpty(s, eat, kw, P, delimiter) ==
    LET r == SplitLoop(s, eat, kw, P, delimiter, <<>>, <<>>)
    IN  IF r.status = "ok" /\ r.val[Len(r.val)] = <<>>
        THEN Outcome(r.parser, r.status, SubSeq(r.val, 1, Len(r.val) - 1), r.err)
        ELSE r

\* Split that starts with the current token's literal already accumulated.
Split_KeepFirstLiteral(s, eat, kw, P, delimiter) ==
    SplitLoop(s, eat, kw, P, delimiter, <<>>, P.curr.Literal)

Split(s, eat, kw, P, delimiter) ==
    SplitLoop(s, eat, kw, P, delimiter, <<>>, <<>>)

Enclosure(start, stop) == [start |-> start, stop |-> stop]

EnclosureParens == Enclosure(LParen, RParen)

MissingStart == "missing start of enclosure"

MissingEnd == "missing end of enclosure"

\* An outcome of Unwrap together with the values the nesting counter had
\* after the switch of each loop iteration, in order.
Nested(o, ns) ==
    [parser |-> o.parser, status |-> o.status, val |-> o.val, err |-> o.err,
     nesting |-> ns]

\* The loop of Unwrap counting every token whose literal holds the start or
\* the stop character.
RECURSIVE UnwrapLoop_CountsLiterals(_, _, _, _, _, _, _)
UnwrapLoop_CountsLiterals(s, eat, kw, P, enc, start, nesting) ==
    LET k == P.curr.Kind
        lit == P.curr.Literal
        opens == \E i \in 1..Len(lit) : lit[i] = enc.start
        closes == \E i \in 1..Len(lit) : lit[i] = enc.stop
        n2 == IF opens THEN nesting + 1
              ELSE IF closes THEN nesting - 1
              ELSE nesting
    IN  IF ~opens /\ ~closes /\ k = TokenEoF
            THEN Nested(Outcome(P, "ok", <<>>, MissingEnd), <<n2>>)
        ELSE IF n2 = 0
            THEN IF start > P.curr.Position \/ P.curr.Position > Len(s)
                 THEN Nested(Outcome(P, "panic", <<>>, ""), <<n2>>)
                 ELSE Nested(Outcome(P, "ok", collectBetween(s, start, P.curr.Position), ""),
                             <<n2>>)
        ELSE LET a == Advance(s, eat, kw, P)
             IN  IF a.status # "ok"
                     THEN Nested(Outcome(a.parser, a.status, <<>>, ""), <<n2>>)
                 ELSE IF a.parser = P
                     THEN Nested(Outcome(a.parser, "hang", <<>>, ""), <<n2>>)
                 ELSE LET r == UnwrapLoop_CountsLiterals(s, eat, kw, a.parser, enc, start, n2)
                      IN  Nested(r, <<n2>> \o r.nesting)

\* The loop of Parser.Unwrap from parser state P at nesting level nesting.
RECURSIVE UnwrapLoop(_, _, _, _, _, _, _)
UnwrapLoop(s, eat, kw, P, enc, start, nesting) ==
    LET k == P.curr.Kind
        n2 == IF k = enc.start THEN nesting + 1
              ELSE IF k = enc.stop THEN nesting - 1
              ELSE nesting
    IN  IF k # enc.start /\ k # enc.stop /\ k = TokenEoF
            THEN Nested(Outcome(P, "ok", <<>>, MissingEnd), <<n2>>)
        ELSE IF n2 = 0
            THEN IF start > P.curr.Position \/ P.curr.Position > Len(s)
                 THEN Nested(Outcome(P, "panic", <<>>, ""), <<n2>>)
                 ELSE Nested(Outcome(P, "ok", collectBetween(s, start, P.curr.Position), ""),
                             <<n2>>)
        ELSE LET a == Advance(s, eat, kw, P)
             IN  IF a.status # "ok"
                     THEN Nested(Outcome(a.parser, a.status, <<>>, ""), <<n2>>)
                 ELSE IF a.parser = P /\ k # enc.stop
                     THEN Nested(Outcome(a.parser, "hang", <<>>, ""), <<n2>>)
                 ELSE LET r == UnwrapLoop(s, eat, kw, a.parser, enc, start, n2)
                      IN  Nested(r, <<n2>> \o r.nesting)

\* Unwrap that advances into the input before it checks the opener.
Unwrap_AdvanceBeforeCheck(s, eat, kw, P, enc) ==
    LET a == Advance(s, eat, kw, P)
    IN  IF a.status # "ok" THEN Nested(Outcome(a.parser, a.status, <<>>, ""), <<>>)
        ELSE IF P.curr.Kind # enc.start
            THEN Nested(Outcome(a.parser, "ok", <<>>, MissingStart), <<>>)
        ELSE UnwrapLoop(s, eat, kw, a.parser, enc, P.curr.Position + 1, 1)

\* Unwrap that records the opener's own position as the start.
Unwrap_StartAtOpener(s, eat, kw, P, enc) ==
    IF P.curr.Kind # enc.start
    THEN Nested(Outcome(P, "ok", <<>>, MissingStart), <<>>)
    ELSE LET a == Advance(s, eat, kw, P)
         IN  IF a.status # "ok" THEN Nested(Outcome(a.parser, a.status, <<>>, ""), <<>>)
             ELSE UnwrapLoop(s, eat, kw, a.parser, enc, P.curr.Position, 1)

\* Unwrap that advances past the closing token before it returns.
Unwrap_AdvancePastClose(s, eat, kw, P, enc) ==
    IF P.curr.Kind # enc.start
    THEN Nested(Outcome(P, "ok", <<>>, MissingStart), <<>>)
    ELSE LET a == Advance(s, eat, kw, P)
             r == IF a.status # "ok" THEN Nested(Outcome(a.parser, a.status, <<>>, ""), <<>>)
                  ELSE UnwrapLoop(s, eat, kw, a.parser, enc, P.curr.Position + 1, 1)
             b == Advance(s, eat, kw, r.parser)
         IN  IF r.status = "ok" /\ r.err = ""
             THEN Nested(Outcome(b.parser, b.status, r.val, r.err), r.nesting)
             ELSE r

\* Unwrap that enters the loop with the nesting counter at 0.
Unwrap_StartNestingZero(s, eat, kw, P, enc) ==
    IF P.curr.Kind # enc.start
    THEN Nested(Outcome(P, "ok", <<>>, MissingStart), <<>>)
    ELSE LET a == Advance(s, eat, kw, P)
         IN  IF a.status # "ok" THEN Nested(Outcome(a.parser, a.status, <<>>, ""), <<>>)
             ELSE UnwrapLoop(s, eat, kw, a.parser, enc, P.curr.Position + 1, 0)

Unwrap(s, eat, kw, P, enc) ==
    IF P.curr.Kind # enc.start
    THEN Nested(Outcome(P, "ok", <<>>, MissingStart), <<>>)
    ELSE LET a == Advance(s, eat, kw, P)
         IN  IF a.status # "ok" THEN Nested(Outcome(a.parser, a.status, <<>>, ""), <<>>)
             ELSE UnwrapLoop(s, eat, kw, a.parser, enc, P.curr.Position + 1, 1)

\* ExpectPeek that advances whether or not the peek token matches.
ExpectPeek_AlwaysAdvance(s, eat, kw, P, kind) ==
    LET a == Advance(s, eat, kw, P)
    IN  Outcome(a.parser, a.status, P.next.Kind = kind, "")

\* Parser.ExpectPeek: val is the boolean returned.
ExpectPeek(s, eat, kw, P, kind) ==
    IF P.next.Kind # kind
    THEN Outcome(P, "ok", FALSE, "")
    ELSE LET a == Advance(s, eat, kw, P)
         IN  Outcome(a.parser, a.status, TRUE, "")

(***************************************************************************)
(* The parser's operations as actions.  ret records the last call: its     *)
(* name, its argument, the parser it was called on and what it returned;   *)
(* status tells whether the call returned, panicked or never returns.      *)
(***************************************************************************)
ParseAlphabet == {LParen, RParen, EAcute, Space}

SplitKinds == {Space, CustomKind, TokenEoF}

Enclosures == {EnclosureParens}

ExpectKinds == {RParen, TokenIdent}

\* Advances followed after the scanner has passed the end of the input.
MaxPastEnd == 1

Result(kind, arg, pre, val, err) ==
    [kind |-> kind, arg |-> arg, pre |-> pre, val |-> val, err |-> err]

Init ==
    /\ symbols \in StringsUpTo(ParseAlphabet, MaxParseLen)
    /\ eatSpaces \in BOOLEAN
    /\ keywords \in KeywordTables
    /\ cursor = 0
    /\ curr = ZeroToken
    /\ next = ZeroToken
    /\ status = "ok"
    /\ op = "none"
    /\ ret = NoResult
    /\ toks = <<>>

Ready == op # "none" /\ op # "lexer" /\ status = "ok"

Config == <<symbols, eatSpaces, keywords>>

SetParser(P) ==
    /\ cursor' = P.cursor
    /\ curr' = P.curr
    /\ next' = P.next

\* The tokens the constructor and the caller's Advance calls have drawn from
\* the scanner so far, in the order drawn: a call that returned adds the
\* token it stored in the peek slot.
Drawn(ts, a) == IF a.status = "ok" THEN Append(ts, a.parser.next) ELSE ts

\* The same record for an operation that advanced the parser from P to Q
\* by its own Advance calls.
RECURSIVE DrawnUntil(_, _, _, _, _, _)
DrawnUntil(s, eat, kw, ts, P, Q) ==
    IF P = Q \/ P.cursor >= Q.cursor
    THEN ts
    ELSE LET a == Advance(s, eat, kw, P)
         IN  IF a.status # "ok" \/ a.parser = P
             THEN ts
             ELSE DrawnUntil(s, eat, kw, Drawn(ts, a), a.parser, Q)

NewParser ==
    /\ op = "none"
    /\ LET a1 == Advance(symbols, eatSpaces, keywords, Here)
           a2 == IF a1.status = "ok"
                 THEN Advance(symbols, eatSpaces, keywords, a1.parser)
                 ELSE a1
       IN  /\ SetParser(a2.parser)
           /\ status' = a2.status
           /\ toks' = Drawn(Drawn(toks, a1), a2)
    /\ op' = "NewParser"
    /\ ret' = Result("NewParser", 0, Here, <<>>, "")
    /\ UNCHANGED <<symbols, eatSpaces, keywords>>

ParserAdvance ==
    /\ Ready
    /\ curr.Kind = TokenEoF => curr.Position < Len(symbols) + MaxPastEnd
    /\ Len(toks) < Len(symbols) + MaxPastEnd + 2
    /\ LET a == Advance(symbols, eatSpaces, keywords, Here)
       IN  /\ SetParser(a.parser)
           /\ status' = a.status
           /\ toks' = Drawn(toks, a)
    /\ op' = "Advance"
    /\ ret' = Result("Advance", 0, Here, <<>>, "")
    /\ UNCHANGED <<symbols, eatSpaces, keywords>>

ParserUnparsed ==
    /\ Ready
    /\ LET u == Unparsed(symbols, curr)
       IN  /\ status' = IF u.panic THEN "panic" ELSE "ok"
           /\ ret' = Result("Unparsed", 0, Here, u.bytes, "")
    /\ op' = "Unparsed"
    /\ UNCHANGED <<symbols, eatSpaces, keywords, cursor, curr, next, toks>>

ParserSplit ==
    /\ Ready
    /\ \E delimiter \in SplitKinds :
        LET r == Split(symbols, eatSpaces, keywords, Here, delimiter)
        IN  /\ SetParser(r.parser)
            /\ status' = r.status
            /\ toks' = DrawnUntil(symbols, eatSpaces, keywords, toks, Here, r.parser)
            /\ ret' = Result("Split", delimiter, Here, r.val, r.err)
    /\ op' = "Split"
    /\ UNCHANGED <<symbols, eatSpaces, keywords>>

ParserUnwrap ==
    /\ Ready
    /\ \E enc \in Enclosures :
        LET r == Unwrap(symbols, eatSpaces, keywords, Here, enc)
        IN  /\ SetParser(r.parser)
            /\ status' = r.status
            /\ toks' = DrawnUntil(symbols, eatSpaces, keywords, toks, Here, r.parser)
            /\ ret' = Result("Unwrap", enc, Here, r.val, r.err)
                          @@ [nesting |-> r.nesting]
    /\ op' = "Unwrap"
    /\ UNCHANGED <<symbols, eatSpaces, keywords>>

ParserExpectPeek ==
    /\ Ready
    /\ \E kind \in ExpectKinds :
        LET r == ExpectPeek(symbols, eatSpaces, keywords, Here, kind)
        IN  /\ SetParser(r.parser)
            /\ status' = r.status
            /\ toks' = DrawnUntil(symbols, eatSpaces, keywords, toks, Here, r.parser)
            /\ ret' = Result("ExpectPeek", kind, Here, r.val, r.err)
    /\ op' = "ExpectPeek"
    /\ UNCHANGED <<symbols, eatSpaces, keywords>>

\* Construction followed by Advance calls only.
NextAdvance ==
    \/ NewParser
    \/ ParserAdvance

SpecAdvance == Init /\ [][NextAdvance]_vars

Next ==
    \/ NewParser
    \/ ParserAdvance
    \/ ParserUnparsed
    \/ ParserSplit
    \/ ParserUnwrap
    \/ ParserExpectPeek

Spec == Init /\ [][Next]_vars

(***************************************************************************)
(* Building the configuration.  An option is applied to the parseConfig    *)
(* under construction; the package has two revisions of the Keywords       *)
(* option, one that stores the supplied map and one that writes its        *)
(* entries into the map the configuration already has.  isNil says the     *)
(* keywords map has not been allocated: writing into it panics.            *)
(***************************************************************************)
MaxOptions == 2

WordTrue == <<116, 114, 117, 101>>

WordFalse == <<102, 97, 108, 115, 101>>

DefaultKeywords == [w \in {WordTrue, WordFalse} |-> TokenBoolean]

OverrideKind == -11

OptionTables ==
    { [w \in {WordTrue} |-> CustomKind],
      [w \in {<<LetterA>>} |-> CustomKind],
      [w \in {<<LetterA>>} |-> OverrideKind] }

KeywordsOption(kws) == [option |-> "Keywords", keywords |-> kws]

IgnoreWhitespacesOption == [option |-> "IgnoreWhitespaces", keywords |-> <<>>]

Options == {KeywordsOption(kws) : kws \in OptionTables} \cup {IgnoreWhitespacesOption}

OptionLists == StringsUpTo(Options, MaxOptions)

Revisions == {"merge", "replace"}

\* new(parseConfig)
newConfig ==
    [eatSpaces |-> FALSE, keywords |-> NoKeywords, isNil |-> TRUE, status |-> "ok"]

\* Keywords, the revision that adds each supplied entry to config.keywords.
Keywords(config, kws) ==
    IF kws = <<>> THEN config
    ELSE IF config.isNil THEN [config EXCEPT !.status = "panic"]
    ELSE LET old == config.keywords
         IN  [config EXCEPT !.keywords =
                 [w \in DOMAIN old \cup DOMAIN kws |->
                     IF w \in DOMAIN kws THEN kws[w] ELSE old[w]]]

\* Keywords, the revision that assigns the supplied map to config.keywords.
KeywordsReplace(config, kws) ==
    [config EXCEPT !.keywords = kws, !.isNil = FALSE]

IgnoreWhitespaces(config) == [config EXCEPT !.eatSpaces = TRUE]

ApplyOption(config, o, revision) ==
    IF o.option = "IgnoreWhitespaces" THEN IgnoreWhitespaces(config)
    ELSE IF revision = "merge" THEN Keywords(config, o.keywords)
    ELSE KeywordsReplace(config, o.keywords)

\* for _, option := range opts { option(config) }
RECURSIVE ApplyOptions(_, _, _)
ApplyOptions(config, opts, revision) ==
    IF opts = <<>> \/ config.status # "ok"
    THEN config
    ELSE ApplyOptions(ApplyOption(config, Head(opts), revision), Tail(opts), revision)

newParseConfig(opts, revision) ==
    ApplyOptions([newConfig EXCEPT !.keywords = DefaultKeywords, !.isNil = FALSE],
                 opts, revision)

ConfigInputs ==
    {WordTrue, WordFalse, <<LetterA>>, WordTrue \o <<Space, LetterA>>}

InitConfig ==
    /\ symbols \in ConfigInputs
    /\ eatSpaces = FALSE
    /\ keywords = NoKeywords
    /\ cursor = 0
    /\ curr = ZeroToken
    /\ next = ZeroToken
    /\ status = "ok"
    /\ op = "none"
    /\ ret = NoResult
    /\ toks = <<>>

\* NewParser with its options: the configuration starts from
\* new(parseConfig), the options are applied in order, and the parser
\* advances twice under the resulting configuration.
NewParserOptions ==
    /\ op = "none"
    /\ \E opts \in OptionLists, revision \in Revisions :
        LET config == ApplyOptions(newConfig, opts, revision)
            a1 == Advance(symbols, config.eatSpaces, config.keywords, Here)
            a2 == IF a1.status = "ok"
                  THEN Advance(symbols, config.eatSpaces, config.keywords, a1.parser)
                  ELSE a1
        IN  /\ ret' = Result("NewParser", [opts |-> opts, revision |-> revision],
                             Here, <<>>, "")
            /\ IF config.status # "ok"
               THEN /\ status' = config.status
                    /\ UNCHANGED <<eatSpaces, keywords, cursor, curr, next, toks>>
               ELSE /\ eatSpaces' = config.eatSpaces
                    /\ keywords' = config.keywords
                    /\ SetParser(a2.parser)
                    /\ status' = a2.status
                    /\ toks' = Drawn(Drawn(toks, a1), a2)
    /\ op' = "NewParser"
    /\ UNCHANGED symbols

\* A scanner built on newParseConfig(opts...), as the lexer tests build it.
NewLexer ==
    /\ op = "none"
    /\ \E opts \in OptionLists, revision \in Revisions :
        LET config == newParseConfig(opts, revision)
        IN  /\ ret' = Result("newParseConfig", [opts |-> opts, revision |-> revision],
                             cursor, <<>>, "")
            /\ eatSpaces' = config.eatSpaces
            /\ keywords' = config.keywords
            /\ status' = config.status
    /\ op' = "lexer"
    /\ UNCHANGED <<symbols, cursor, curr, next, toks>>

NextConfig ==
    \/ NewParserOptions
    \/ ParserAdvance
    \/ NewLexer
    \/ LexerNext

SpecConfig == InitConfig /\ [][NextConfig]_vars

(***************************************************************************)
(* Enclosures: the constructor, the four predefined pairs, and Unwrap on   *)
(* inputs that hold a digit outside the ASCII range.                       *)
(***************************************************************************)
MaxEnclosureLen == 3

LSquare == 91

RSquare == 93

LCurly == 123

RCurly == 125

LAngle == 60

RAngle == 62

SameStartStop == "enclosure start and stop cannot be the same"

\* NewEnclosure that accepts every pair.
NewEnclosure_AcceptAll(start, stop) ==
    [enc |-> Enclosure(start, stop), err |-> ""]

NewEnclosure(start, stop) ==
    IF start = stop
    THEN [enc |-> Enclosure(0, 0), err |-> SameStartStop]
    ELSE [enc |-> Enclosure(start, stop), err |-> ""]

EnclosureSquare == Enclosure(LSquare, RSquare)

EnclosureCurly == Enclosure(LCurly, RCurly)

EnclosureAngle == Enclosure(LAngle, RAngle)

PredefinedEnclosures ==
    [Parens |-> EnclosureParens, Square |-> EnclosureSquare,
     Curly |-> EnclosureCurly, Angle |-> EnclosureAngle]

EnclosureRunes == {LParen, RParen, LSquare, RAngle}

EnclosureAlphabet == {LParen, RParen, ArabicThree}

InitEnclosure ==
    /\ symbols \in StringsUpTo(EnclosureAlphabet, MaxEnclosureLen)
    /\ eatSpaces = FALSE
    /\ keywords = NoKeywords
    /\ cursor = 0
    /\ curr = ZeroToken
    /\ next = ZeroToken
    /\ status = "ok"
    /\ op = "none"
    /\ ret = NoResult
    /\ toks = <<>>

CallNewEnclosure ==
    /\ Ready
    /\ \E start \in EnclosureRunes, stop \in EnclosureRunes :
        LET r == NewEnclosure(start, stop)
        IN  ret' = Result("NewEnclosure", <<start, stop>>, Here, r.enc, r.err)
    /\ op' = "NewEnclosure"
    /\ UNCHANGED <<symbols, eatSpaces, keywords, cursor, curr, next, status, toks>>

CallPredefinedEnclosure ==
    /\ Ready
    /\ \E name \in DOMAIN PredefinedEnclosures :
        ret' = Result("Enclosure", name, Here, PredefinedEnclosures[name], "")
    /\ op' = "Enclosure"
    /\ UNCHANGED <<symbols, eatSpaces, keywords, cursor, curr, next, status, toks>>

NextEnclosure ==
    \/ NewParser
    \/ ParserAdvance
    \/ ParserUnwrap
    \/ CallNewEnclosure
    \/ CallPredefinedEnclosure

SpecEnclosure == InitEnclosure /\ [][NextEnclosure]_vars

(***************************************************************************)
(* Token.Value: the value a token converts to, or the error.  Numbers in   *)
(* the inputs have at most a handful of digits, far inside the 64-bit      *)
(* range the conversion checks.                                            *)
(***************************************************************************)
LetterF == 102

TrueSpellings ==
    { <<49>>, <<116>>, <<84>>, <<84, 82, 85, 69>>, WordTrue, <<84, 114, 117, 101>> }

FalseSpellings ==
    { <<48>>, <<102>>, <<70>>, <<70, 65, 76, 83, 69>>, WordFalse, <<70, 97, 108, 115, 101>> }

InvalidBoolean == "invalid boolean token: could not parse as boolean"

InvalidHex == "invalid hex token"

InvalidSigned == "invalid signed numeric token"

InvalidNumeric == "invalid numeric token"

CannotValue == "cannot generate from value from token of this kind"

Converted(type, v) == [val |-> [type |-> type, v |-> v], err |-> ""]

Failed(err) == [val |-> [type |-> "nil", v |-> <<>>], err |-> err]

\* strings.TrimPrefix(literal, "0x")
TrimHexPrefix(lit) ==
    IF Len(lit) >= 2 /\ lit[1] = Zero /\ lit[2] = LetterX
    THEN SubSeq(lit, 3, Len(lit))
    ELSE lit

HexDigit(ch) ==
    IF isDecChar(ch) THEN ch - 48
    ELSE IF 97 <= ch /\ ch <= 102 THEN ch - 87
    ELSE ch - 55

\* hex.DecodeString
DecodeHex(ds) ==
    IF Len(ds) % 2 = 1 \/ \E i \in 1..Len(ds) : ~isHexChar(ds[i])
    THEN Failed(InvalidHex)
    ELSE Converted("bytes",
             [i \in 1..(Len(ds) \div 2) |->
                 16 * HexDigit(ds[2 * i - 1]) + HexDigit(ds[2 * i])])

RECURSIVE DecimalValue(_)
DecimalValue(ds) ==
    IF ds = <<>> THEN 0
    ELSE 10 * DecimalValue(SubSeq(ds, 1, Len(ds) - 1)) + (ds[Len(ds)] - 48)

AllDecimal(ds) == ds # <<>> /\ \A i \in 1..Len(ds) : isDecChar(ds[i])

Value(token) ==
    IF token.Kind = TokenString
        THEN Converted("string", token.Literal)
    ELSE IF token.Kind = TokenBoolean
        THEN IF token.Literal \in TrueSpellings THEN Converted("bool", TRUE)
             ELSE IF token.Literal \in FalseSpellings THEN Converted("bool", FALSE)
             ELSE Failed(InvalidBoolean)
    ELSE IF token.Kind = TokenHexNumber
        THEN DecodeHex(TrimHexPrefix(token.Literal))
    ELSE IF token.Kind = TokenNumber
        THEN IF token.Literal # <<>> /\ token.Literal[1] = Minus
             THEN IF AllDecimal(Tail(token.Literal))
                  THEN Converted("int64", 0 - DecimalValue(Tail(token.Literal)))
                  ELSE Failed(InvalidSigned)
             ELSE IF AllDecimal(token.Literal)
                  THEN Converted("uint64", DecimalValue(token.Literal))
                  ELSE Failed(InvalidNumeric)
    ELSE Failed(CannotValue)

ValueAlphabet == {Quote, Zero, LetterX, LetterF, Minus}

ValueKeywords == [w \in {<<LetterF>>, <<LetterX>>} |-> TokenBoolean]

InitValue ==
    /\ symbols \in StringsUpTo(ValueAlphabet, MaxLexLen)
    /\ eatSpaces = FALSE
    /\ keywords \in {NoKeywords, ValueKeywords}
    /\ cursor = 0
    /\ curr = ZeroToken
    /\ next = ZeroToken
    /\ status = "ok"
    /\ op = "lexer"
    /\ ret = NoResult
    /\ toks = <<>>

\* Value() called on the token next() has just returned.
TokenValue ==
    /\ op = "lexer"
    /\ status = "ok"
    /\ ret.kind = "next"
    /\ toks # <<>>
    /\ LET token == toks[Len(toks)]
           r == Value(token)
       IN  ret' = [kind |-> "Value", pre |-> ret.pre, token |-> token,
                   val |-> r.val, err |-> r.err]
    /\ UNCHANGED <<symbols, eatSpaces, keywords, cursor, curr, next, status, op, toks>>

NextValue ==
    \/ LexerNext
    \/ TokenValue

SpecValue == InitValue /\ [][NextValue]_vars

(***************************************************************************)
(* The parser's accessors: Peek, Cursor, IsPeek and IsCursor read the two   *)
(* buffered tokens of the parser P.                                         *)
(***************************************************************************)
Peek(P) == P.next

Cursor(P) == P.curr

\* IsPeek that looks at the current token.
IsPeek_ComparesCurrent(P, t) == P.curr.Kind = t

IsPeek(P, t) == P.next.Kind = t

IsCursor(P, t) == P.curr.Kind = t

PeekKinds == {LParen, RParen, TokenEoF}

ParserPeek ==
    /\ Ready
    /\ ret' = Result("Peek", 0, Here, Peek(Here), "")
    /\ op' = "Peek"
    /\ UNCHANGED <<symbols, eatSpaces, keywords, cursor, curr, next, status, toks>>

ParserCursor ==
    /\ Ready
    /\ ret' = Result("Cursor", 0, Here, Cursor(Here), "")
    /\ op' = "Cursor"
    /\ UNCHANGED <<symbols, eatSpaces, keywords, cursor, curr, next, status, toks>>

ParserIsPeek ==
    /\ Ready
    /\ \E t \in PeekKinds :
        ret' = Result("IsPeek", t, Here, IsPeek(Here, t), "")
    /\ op' = "IsPeek"
    /\ UNCHANGED <<symbols, eatSpaces, keywords, cursor, curr, next, status, toks>>

ParserIsCursor ==
    /\ Ready
    /\ \E t \in PeekKinds :
        ret' = Result("IsCursor", t, Here, IsCursor(Here, t), "")
    /\ op' = "IsCursor"
    /\ UNCHANGED <<symbols, eatSpaces, keywords, cursor, curr, next, status, toks>>

\* Construction, Advance calls and the read-only calls in any order.
NextPeeking ==
    \/ NewParser
    \/ ParserAdvance
    \/ ParserPeek
    \/ ParserCursor
    \/ ParserIsPeek
    \/ ParserIsCursor
    \/ ParserUnparsed

SpecPeeking == Init /\ [][NextPeeking]_vars

(***************************************************************************)
(* Unwrap over inputs in which the scanner absorbs enclosure characters    *)
(* into longer tokens: a quoted string holding ')', an unterminated string *)
(* holding '(', and a '-' that starts a negative number.  The parser is    *)
(* built without options.                                                  *)
(***************************************************************************)
MaxPieces == 4

Pieces ==
    {<<LParen>>, <<RParen>>, <<Quote, LetterA, RParen, Quote>>,
     <<Quote, LParen>>, <<Minus, Zero>>, <<Minus>>}

EnclosureMinus == Enclosure(LParen, Minus)

KindEnclosures == {EnclosureParens, EnclosureMinus}

InitKinds ==
    /\ symbols \in {Concat(ps) : ps \in StringsUpTo(Pieces, MaxPieces)}
    /\ eatSpaces = FALSE
    /\ keywords = NoKeywords
    /\ cursor = 0
    /\ curr = ZeroToken
    /\ next = ZeroToken
    /\ status = "ok"
    /\ op = "none"
    /\ ret = NoResult
    /\ toks = <<>>

ParserUnwrapKinds ==
    /\ Ready
    /\ \E enc \in KindEnclosures :
        LET r == Unwrap(symbols, eatSpaces, keywords, Here, enc)
        IN  /\ SetParser(r.parser)
            /\ status' = r.status
            /\ toks' = DrawnUntil(symbols, eatSpaces, keywords, toks, Here, r.parser)
            /\ ret' = Result("Unwrap", enc, Here, r.val, r.err)
                          @@ [nesting |-> r.nesting]
    /\ op' = "Unwrap"
    /\ UNCHANGED <<symbols, eatSpaces, keywords>>

NextKinds ==
    \/ NewParser
    \/ ParserAdvance
    \/ ParserUnwrapKinds

SpecKinds == InitKinds /\ [][NextKinds]_vars

Min(a, b) == IF a < b THEN a ELSE b

\* C1: for every input and configuration, calling next() until it returns
\* End-of-input terminates, and the tokens produced hold exactly one
\* End-of-input token, the last one.  Every token before End-of-input must
\* consume a character, so a scan that terminates makes at most
\* Len(symbols) + 1 calls and none of them fails.
C1_ScanEndsWithOneEoF ==
    /\ status = "ok"
    /\ Len(toks) <= Len(symbols) + 1
    /\ \A i \in 1..(Len(toks) - 1) : toks[i].Kind # TokenEoF

C3_LookaheadInBounds ==
    LET c == IF eatSpaces THEN consumeSpaces(symbols, cursor) ELSE cursor
    IN  (c = Len(symbols) - 1 /\ char(symbols, c) \in {Zero, Minus})
            => status # "panic"

(***************************************************************************)
(* What the last call of Split or Unwrap had before it: the token stream   *)
(* from the current token on, as the scanner yields it.                    *)
(***************************************************************************)
Buffered(P) == <<P.curr, P.next>> \o lexer_tokens(symbols, eatSpaces, keywords, P.cursor).tokens

\* The tokens visited from the current token of P up to and including the
\* first End-of-input.
Visited(P) ==
    LET all == Buffered(P)
        ends == {i \in 1..Len(all) : all[i].Kind = TokenEoF}
    IN  IF ends = {} THEN all
        ELSE SubSeq(all, 1, CHOOSE i \in ends : \A j \in ends : i <= j)

Count(ts, kind) == Cardinality({i \in 1..Len(ts) : ts[i].Kind = kind})

AfterSplit == op = "Split" /\ status = "ok"

\* C4: Split(D) returns one string more than there are tokens of kind D
\* among the tokens visited from the current token up to End-of-input.
C4_SplitCount ==
    AfterSplit => Len(ret.val) = Count(Visited(ret.pre), ret.arg) + 1

C4_SplitCountWitness ==
    /\ AfterSplit
    /\ Count(Visited(ret.pre), ret.arg) >= 2
    /\ ret.val[1] = <<>>
    /\ ret.val[Len(ret.val)] = <<>>

\* The index in ts of the k-th token of the given kind; 0 before the first
\* and Len(ts) after the last (the End-of-input token).
DelimiterAt(ts, kind, k) ==
    LET at == {i \in 1..Len(ts) : ts[i].Kind = kind}
    IN  IF k = 0 THEN 0
        ELSE IF k > Cardinality(at) THEN Len(ts)
        ELSE CHOOSE i \in at : Cardinality({j \in at : j < i}) = k - 1

\* The literals of the tokens strictly between the (k-1)-th and the k-th
\* token of the given kind, concatenated.
Between(ts, kind, k) ==
    LET lo == DelimiterAt(ts, kind, k - 1)
        hi == DelimiterAt(ts, kind, k)
    IN  Concat([i \in 1..(hi - lo - 1) |-> ts[lo + i].Literal])

\* C5: the i-th string of Split(D) is the concatenation of the literals of
\* the tokens between the (i-1)-th and the i-th token of kind D; delimiters
\* and End-of-input contribute nothing, and with elision on a result holds
\* whitespace only out of a quoted literal.
C5_SplitPieces ==
    AfterSplit =>
        LET ts == Visited(ret.pre)
        IN  /\ ret.val = [k \in 1..(Count(ts, ret.arg) + 1) |-> Between(ts, ret.arg, k)]
            /\ eatSpaces =>
                \A k \in 1..Len(ret.val) : \A j \in 1..Len(ret.val[k]) :
                    IsSpace(ret.val[k][j]) =>
                        \E i \in 1..Len(ts) : ts[i].Kind \in {TokenString, TokenMalformed}

C5_SplitPiecesWitness ==
    /\ AfterSplit
    /\ eatSpaces
    /\ ret.arg = CustomKind
    /\ \E i \in 2..(Len(symbols) - 1) : symbols[i] = Space
    /\ Len(ret.val) = 2
    /\ ret.val[1] # <<>>
    /\ ret.val[2] # <<>>

AfterUnwrap == op = "Unwrap" /\ status = "ok"

\* C6: Unwrap on a current token that is not the opener returns the
\* missing-start error and an empty result, and leaves current token, peek
\* token and scanner cursor (hence Unparsed) as they were.
C6_MissingStartNoChange ==
    (op = "Unwrap" /\ ret.pre.curr.Kind # ret.arg.start) =>
        /\ status = "ok"
        /\ ret.err = MissingStart
        /\ ret.val = <<>>
        /\ Here = ret.pre
        /\ Unparsed(symbols, curr) = Unparsed(symbols, ret.pre.curr)

C6_MissingStartWitness ==
    /\ op = "Unwrap"
    /\ ret.err = MissingStart
    /\ ret.pre.curr.Kind = TokenIdent
    /\ ret.pre.next.Kind = ret.arg.start

\* The nesting count after the j-th visited token: 1 for the opener, plus
\* the start tokens and minus the stop tokens among tokens 2..j.
Depth(ts, enc, j) ==
    1 + Cardinality({i \in 2..j : ts[i].Kind = enc.start})
      - Cardinality({i \in 2..j : ts[i].Kind = enc.stop})

Closers(ts, enc) ==
    {j \in 2..Len(ts) : ts[j].Kind = enc.stop /\ Depth(ts, enc, j) = 0}

\* The index of the matching stop token: the first one at which the count
\* reaches 0.
MatchAt(ts, enc) ==
    CHOOSE j \in Closers(ts, enc) : \A i \in Closers(ts, enc) : j <= i

Opened == ret.pre.curr.Kind = ret.arg.start

\* C7: on an opener with a matching stop token, Unwrap returns without
\* error the input strictly between the opening character and the matching
\* stop character.
C7_UnwrapResult ==
    (AfterUnwrap /\ Opened /\ Closers(Visited(ret.pre), ret.arg) # {}) =>
        LET ts == Visited(ret.pre)
        IN  /\ ret.err = ""
            /\ ret.val = SubSeq(symbols, ret.pre.curr.Position + 2,
                                ts[MatchAt(ts, ret.arg)].Position)

C7_UnwrapNestedWitness ==
    /\ AfterUnwrap
    /\ ret.err = ""
    /\ \E i \in 1..Len(ret.val) : ret.val[i] = ret.arg.start
    /\ \E i \in 1..Len(ret.val) : ret.val[i] = ret.arg.stop

\* C8: on an opener with End-of-input reached before the nesting count is
\* back at 0, Unwrap returns the missing-end error and an empty result, the
\* current token is End-of-input and Unparsed() is the empty string.
C8_MissingEnd ==
    (AfterUnwrap /\ Opened /\ Closers(Visited(ret.pre), ret.arg) = {}) =>
        /\ ret.err = MissingEnd
        /\ ret.val = <<>>
        /\ curr.Kind = TokenEoF
        /\ Unparsed(symbols, curr) = [panic |-> FALSE, bytes |-> <<>>]

\* C9: after a successful Unwrap, Unparsed() is the input that follows the
\* matching closing character.
C9_UnparsedAfterClose ==
    (AfterUnwrap /\ ret.err = "") =>
        LET ts == Visited(ret.pre)
            close == ts[MatchAt(ts, ret.arg)].Position
        IN  Unparsed(symbols, curr) =
                [panic |-> FALSE,
                 bytes |-> EncodeString(SubSeq(symbols, close + 2, Len(symbols)))]

AfterExpectPeek == op = "ExpectPeek" /\ status = "ok"

\* C11: ExpectPeek(k) on a peek token of kind k performs exactly one
\* Advance, returns true and makes the old peek token the current one;
\* otherwise it returns false and leaves current token, peek token and
\* scanner cursor unchanged.
C11_ExpectPeek ==
    AfterExpectPeek =>
        IF ret.pre.next.Kind = ret.arg
        THEN /\ ret.val = TRUE
             /\ curr = ret.pre.next
             /\ Here = Advance(symbols, eatSpaces, keywords, ret.pre).parser
        ELSE /\ ret.val = FALSE
             /\ Here = ret.pre

C11_ExpectPeekWitness ==
    /\ AfterExpectPeek
    /\ ret.val = TRUE
    /\ ret.arg = TokenIdent
    /\ next.Kind = RParen

\* The result of the (n+1)-th of the successive next() calls a scanner makes
\* from the start of the input, n = 0, 1, ...
RECURSIVE ScannerCall(_, _, _, _)
ScannerCall(s, eat, kw, n) ==
    IF n = 0
    THEN lexer_next(s, eat, kw, 0)
    ELSE LET p == ScannerCall(s, eat, kw, n - 1)
         IN  IF p.status # "ok" THEN p ELSE lexer_next(s, eat, kw, p.cursor)

\* C12: after construction and k Advance calls the current token is the
\* k-th and the peek token the (k+1)-th token of the stream the scanner
\* produces under the same configuration, and the scanner has been called
\* exactly k + 2 times: twice by the constructor, once by each Advance.
C12_TokenStream ==
    (op \in {"NewParser", "Advance"} /\ status = "ok") =>
        LET k == Len(toks) - 2
        IN  /\ op = "NewParser" => k = 0
            /\ op = "Advance" => k > 0
            /\ curr = ScannerCall(symbols, eatSpaces, keywords, k).token
            /\ next = ScannerCall(symbols, eatSpaces, keywords, k + 1).token
            /\ cursor = ScannerCall(symbols, eatSpaces, keywords, k + 1).cursor
            /\ \A i \in 1..Len(toks) :
                toks[i] = ScannerCall(symbols, eatSpaces, keywords, i - 1).token

C12_TokenStreamWitness ==
    /\ op = "Advance"
    /\ status = "ok"
    /\ Len(toks) = 4
    /\ eatSpaces
    /\ curr.Kind = RParen
    /\ curr.Position = 3
    /\ next.Kind = TokenEoF

\* C13: while the current token is at or before the first EoF token,
\* Unparsed returns the suffix of the input that begins at the first
\* character of the current token, positions counting characters; this
\* holds for inputs with multi-byte characters too, and the peek token does
\* not enter the result.
C13_UnparsedSuffix ==
    (op = "Unparsed" /\ curr.Position <= Len(symbols)) =>
        /\ status = "ok"
        /\ ret.val =
             EncodeString(SubSeq(symbols, curr.Position + 1, Len(symbols)))

\* C14: no parser operation other than Unwrap fails, on any input and after
\* any sequence of operations; in particular Advance and Unparsed stay
\* well-defined after the current token has become EoF, and Unparsed then
\* returns the empty string.
C14_OnlyUnwrapFails ==
    /\ op \in {"NewParser", "Advance", "ExpectPeek", "Unparsed", "Split"} =>
          status = "ok"
    /\ (op = "Unparsed" /\ curr.Kind = TokenEoF) => ret.val = <<>>

\* The tokens of a stream that are not a single whitespace character.
Visible(ts) == SelectSeq(ts, LAMBDA t : ~(t.Kind > 0 /\ IsSpace(t.Kind)))

IsPrefix(a, b) == Len(a) <= Len(b) /\ a = SubSeq(b, 1, Len(a))

\* C15: with whitespace elision on, the token stream is the stream produced
\* with elision off after deleting every single-character whitespace token;
\* the remaining tokens keep kind, literal and position, and whitespace
\* inside a quoted string literal stays in the literal.
C15_Elision ==
    (op = "lexer" /\ eatSpaces) =>
        LET off == lexer_tokens(symbols, FALSE, keywords, 0)
        IN  /\ off.status = "ok" => IsPrefix(toks, Visible(off.tokens))
            /\ ScanOver => (off.status = "ok" /\ toks = Visible(off.tokens))

C15_ElisionWitness ==
    /\ op = "lexer"
    /\ eatSpaces
    /\ ScanOver
    /\ Len(toks) = 2
    /\ toks[1].Kind = TokenString
    /\ toks[1].Literal = <<Quote, Space, Quote>>
    /\ Len(symbols) = 4

\* A next() call has been made; ret.pre is the cursor it started from.
AfterNext == op = "lexer" /\ ret.kind = "next"

LastToken == toks[Len(toks)]

\* lit is the text of s that starts at 0-based index p, and everything in
\* it after the first skip characters, and nothing directly after it,
\* satisfies In.
LongestRun(s, p, lit, skip, In(_)) ==
    /\ Len(lit) >= skip
    /\ p + Len(lit) <= Len(s)
    /\ lit = SubSeq(s, p + 1, p + Len(lit))
    /\ \A i \in (skip + 1)..Len(lit) : In(lit[i])
    /\ ~In(char(s, p + Len(lit)))

\* C16: on '0' followed by 'x', next() returns one Hex token positioned at
\* the '0' whose literal is "0x" and the longest run of hexadecimal digits
\* after it; on a '0' not followed by 'x' it returns a decimal Number token.
C16_HexOrDecimal ==
    (AfterNext /\ char(symbols, ret.pre) = Zero) =>
        /\ status = "ok"
        /\ LastToken.Position = ret.pre
        /\ IF char(symbols, ret.pre + 1) = LetterX
           THEN /\ LastToken.Kind = TokenHexNumber
                /\ LongestRun(symbols, ret.pre, LastToken.Literal, 2, isHexChar)
           ELSE /\ LastToken.Kind = TokenNumber
                /\ LongestRun(symbols, ret.pre, LastToken.Literal, 0, isDecChar)

\* C17: on '-' followed by a decimal digit, next() returns one Number token
\* whose literal is the '-' and the longest run of decimal digits after it;
\* on a '-' not followed by a decimal digit, the last character of the
\* input included, it returns the single-character token of kind '-' and
\* moves the cursor by one.
C17_MinusSign ==
    (AfterNext /\ char(symbols, ret.pre) = Minus) =>
        /\ status = "ok"
        /\ IF isDecChar(char(symbols, ret.pre + 1))
           THEN /\ LastToken.Kind = TokenNumber
                /\ LastToken.Position = ret.pre
                /\ Len(LastToken.Literal) >= 2
                /\ LongestRun(symbols, ret.pre, LastToken.Literal, 1, isDecChar)
           ELSE /\ LastToken = UnicodeToken(Minus, ret.pre)
                /\ cursor = ret.pre + 1

IdentChar(ch) == IsLetter(ch) \/ IsDigit(ch) \/ ch = Underscore

\* C18: on a letter, next() returns one token whose literal is the longest
\* run of letters, decimal digits and underscores that starts there; its
\* kind is the value the keyword table gives for exactly that literal, and
\* Identifier when the table has no entry for it or there is no table.
C18_IdentOrKeyword ==
    (AfterNext /\ status = "ok" /\ IsLetter(char(symbols, ret.pre))) =>
        /\ LastToken.Position = ret.pre
        /\ Len(LastToken.Literal) >= 1
        /\ LongestRun(symbols, ret.pre, LastToken.Literal, 0, IdentChar)
        /\ cursor = ret.pre + Len(LastToken.Literal)
        /\ LastToken.Kind =
             IF LastToken.Literal \in DOMAIN keywords
             THEN keywords[LastToken.Literal]
             ELSE TokenIdent

C18_IdentOrKeywordWitness ==
    /\ AfterNext
    /\ status = "ok"
    /\ Len(toks) = 3
    /\ toks[1].Literal = <<LetterA>>
    /\ toks[1].Kind = CustomKind
    /\ LastToken.Literal = <<LetterA, Underscore>>
    /\ LastToken.Kind = TokenIdent

\* The Keywords options of opts that supply the spelling w, by index.
Supplying(opts, w) ==
    {i \in 1..Len(opts) :
        opts[i].option = "Keywords" /\ w \in DOMAIN opts[i].keywords}

Last(S) == CHOOSE i \in S : \A j \in S : j <= i

\* C19: the keyword table in effect is the default table, "true" and
\* "false" mapped to Boolean, updated by the supplied Keywords options in
\* order: a spelling has the kind of the last option that supplies it, a
\* default or earlier entry not supplied again is retained; and a parser
\* built with no options classifies "true" and "false" as Boolean.
C19_KeywordTable ==
    (ret.kind \in {"NewParser", "newParseConfig"} /\ status = "ok") =>
        LET opts == ret.arg.opts
        IN  /\ DOMAIN keywords =
                 DOMAIN DefaultKeywords \cup
                 {w \in {WordTrue, WordFalse, <<LetterA>>} : Supplying(opts, w) # {}}
            /\ \A w \in DOMAIN keywords :
                 keywords[w] =
                     IF Supplying(opts, w) = {}
                     THEN DefaultKeywords[w]
                     ELSE opts[Last(Supplying(opts, w))].keywords[w]
            /\ (ret.kind = "NewParser" /\ opts = <<>>
                    /\ symbols \in {WordTrue, WordFalse}) =>
                 curr.Kind = TokenBoolean

\* The 0-based indices after p at which s has a double quote.
LaterQuotes(s, p) == {q \in (p + 1)..(Len(s) - 1) : s[q + 1] = Quote}

First(S) == CHOOSE i \in S : \A j \in S : i <= j

C21_MalformedToken ==
    (AfterNext /\ char(symbols, ret.pre) = Quote
        /\ LaterQuotes(symbols, ret.pre) = {}) =>
        /\ status = "ok"
        /\ LastToken =
             Token(TokenMalformed, SubSeq(symbols, ret.pre + 1, Len(symbols)), ret.pre)
        /\ cursor = Len(symbols)
        /\ LET r == lexer_next(symbols, eatSpaces, keywords, cursor)
           IN  r.status = "ok" /\ r.token = EOFToken(Len(symbols))

C21_MalformedTokenWitness ==
    /\ AfterNext
    /\ status = "ok"
    /\ Len(toks) = 2
    /\ ret.pre = 1
    /\ symbols = <<LetterA, Quote, Space, LetterA>>
    /\ LastToken.Kind = TokenMalformed
    /\ LastToken.Literal = <<Quote, Space, LetterA>>

\* C22: NewEnclosure(start, stop) fails exactly when start equals stop and
\* otherwise returns the pair (start, stop) as given; each of the four
\* predefined enclosures has a start different from its stop.
C22_NewEnclosure ==
    /\ ret.kind = "NewEnclosure" =>
          /\ ret.err # "" <=> ret.arg[1] = ret.arg[2]
          /\ ret.err = "" =>
                (ret.val.start = ret.arg[1] /\ ret.val.stop = ret.arg[2])
    /\ ret.kind = "Enclosure" => ret.val.start # ret.val.stop

C22_NewEnclosureWitness ==
    /\ ret.kind = "NewEnclosure"
    /\ ret.arg = <<RParen, LParen>>
    /\ ret.err = ""
    /\ ret.val = Enclosure(RParen, LParen)

\* C23: Split drains the parser: when it returns, the current token is
\* End-of-input, and a Split called on a parser so drained, with a
\* delimiter kind other than End-of-input, returns exactly one empty string.
C23_SplitDrains ==
    (AfterSplit /\ ret.arg # TokenEoF) =>
        /\ curr.Kind = TokenEoF
        /\ ret.pre.curr.Kind = TokenEoF =>
              (ret.val = << <<>> >> /\ Here = ret.pre)

C23_SplitDrainsWitness ==
    /\ AfterSplit
    /\ ret.arg = Space
    /\ Len(symbols) >= 3
    /\ ret.pre.curr = EOFToken(Len(symbols))
    /\ ret.val = << <<>> >>

\* C24: Value() of a String token whose literal carries its two delimiting
\* double quotes, as the quoted-string scan produces it, returns the text
\* between the quotes, without them.
C24_StringValue ==
    (ret.kind = "Value" /\ ret.token.Kind = TokenString
        /\ Len(ret.token.Literal) >= 2
        /\ ret.token.Literal[1] = Quote
        /\ ret.token.Literal[Len(ret.token.Literal)] = Quote) =>
        /\ ret.err = ""
        /\ ret.val.type = "string"
        /\ ret.val.v = SubSeq(ret.token.Literal, 2, Len(ret.token.Literal) - 1)

\* C25: once next() has returned an End-of-input token, every later call
\* returns an End-of-input token identical to it, positioned at the input
\* length, and leaves the scanner cursor where it was.
C25_EoFIdempotent ==
    (op \in {"NewParser", "Advance"} /\ status = "ok") =>
        \A i \in 1..Len(toks) :
            toks[i].Kind = TokenEoF =>
                /\ toks[i] = EOFToken(Len(symbols))
                /\ \A j \in i..Len(toks) : toks[j] = toks[i]
                /\ cursor = ScannerCall(symbols, eatSpaces, keywords, i - 1).cursor

\* C26: Split(D) terminates for every input and every delimiter kind D,
\* the End-of-input kind included, visiting each remaining token at most
\* once.
C26_SplitTerminates ==
    op = "Split" => status = "ok"

\* C27: Unwrap(enc) terminates for every input, every parser position and
\* every enclosure NewEnclosure accepts, with a result or one of its two
\* errors, visiting each remaining token at most once.
C27_UnwrapTerminates ==
    op = "Unwrap" =>
        /\ status = "ok"
        /\ ret.err \in {"", MissingStart, MissingEnd}

\* C28: every Number token next() returns has a literal made of an optional
\* leading '-' and at least one decimal digit: the decimal scan consumes at
\* least one character of whatever the dispatch routes to it, so the cursor
\* strictly advances.
C28_NumberLiteral ==
    (AfterNext /\ status = "ok" /\ LastToken.Kind = TokenNumber) =>
        LET lit == LastToken.Literal
            digits == IF lit # <<>> /\ lit[1] = Minus THEN Tail(lit) ELSE lit
        IN  /\ digits # <<>>
            /\ \A i \in 1..Len(digits) : isDecChar(digits[i])
            /\ cursor > ret.pre

\* The index just past the last character of a token's literal.
SpanEnd(t) == t.Position + Len(t.Literal)

\* The characters of s from index from up to, not including, index to are
\* none if elision is off and whitespace if it is on.
Gap(s, eat, from, to) ==
    /\ from <= to
    /\ ~eat => from = to
    /\ \A p \in from..(to - 1) : IsSpace(char(s, p))

C30_CursorMonotone ==
    AfterNext => cursor >= ret.pre

C30_CursorMonotoneWitness ==
    /\ AfterNext
    /\ status = "ok"
    /\ LastToken.Kind = TokenMalformed
    /\ Len(LastToken.Literal) = 3
    /\ ret.pre = 1
    /\ cursor = 4

\* The dispatch of next() sends the character ch, followed by nextch, to one
\* of the scans or to End-of-input rather than to the single-character case.
Scanned(ch, nextch) ==
    \/ ch = TokenEoF
    \/ ch = Quote
    \/ IsDigit(ch)
    \/ IsLetter(ch)
    \/ ch = Minus /\ isDecChar(nextch)

\* C31: with a keyword table whose values are all negative, a token's kind
\* is non-negative exactly when it is a single-character token; its kind is
\* then the code point of the one character of its literal and the cursor
\* has moved one past that character.  Tokens of the string, numeric,
\* hexadecimal and identifier scans and End-of-input have negative kinds.
C31_KindSign ==
    (AfterNext /\ status = "ok"
        /\ \A w \in DOMAIN keywords : keywords[w] < 0) =>
        LET t == LastToken
            scanned == Scanned(char(symbols, t.Position),
                               char(symbols, t.Position + 1))
        IN  /\ t.Kind >= 0 <=> ~scanned
            /\ t.Kind >= 0 =>
                  /\ t.Literal = <<t.Kind>>
                  /\ t.Kind = char(symbols, t.Position)
                  /\ cursor = t.Position + 1
            /\ t.Kind \in {TokenString, TokenMalformed, TokenNumber,
                           TokenHexNumber, TokenIdent, TokenEoF}
                  \cup {keywords[w] : w \in DOMAIN keywords} => t.Kind < 0

C31_KindSignWitness ==
    /\ AfterNext
    /\ status = "ok"
    /\ eatSpaces
    /\ keywords = CustomKeywords
    /\ LastToken = UnicodeToken(Minus, 1)
    /\ ret.pre = 0
    /\ cursor = 2
    /\ Len(symbols) = 3

Readers == {"Cursor", "Peek", "IsCursor", "IsPeek", "Unparsed"}

\* C32: Cursor, Peek, IsCursor, IsPeek and Unparsed are read-only: a call of
\* any of them, after any calls before it, leaves the current token, the
\* peek token and the scanner cursor as they were; Cursor and Peek return
\* the current and the peek token, and IsCursor(k) and IsPeek(k) return true
\* exactly when k is the kind of the current and of the peek token.
C32_ReadOnly ==
    [][ret'.kind \in Readers =>
          /\ UNCHANGED <<cursor, curr, next, symbols>>
          /\ ret'.pre = Here
          /\ ret'.kind = "Cursor" => ret'.val = curr
          /\ ret'.kind = "Peek" => ret'.val = next
          /\ ret'.kind = "IsCursor" => (ret'.val <=> ret'.arg = curr.Kind)
          /\ ret'.kind = "IsPeek" => (ret'.val <=> ret'.arg = next.Kind)]_vars

C32_ReadOnlyWitness ==
    /\ op = "IsPeek"
    /\ ret.arg = RParen
    /\ ret.val = TRUE
    /\ ret.pre = Here
    /\ curr.Kind = LParen
    /\ next.Kind = RParen
    /\ curr.Position = 1

\* The index in ts of the token at the given position; 0 when there is none.
IndexAt(ts, position) ==
    LET at == {i \in 1..Len(ts) : ts[i].Position = position}
    IN  IF at = {} THEN 0 ELSE CHOOSE i \in at : \A j \in at : i <= j

\* C33: in Unwrap the nesting counter is never negative and is at least 1 at
\* every loop iteration that goes on to the next.  When Unwrap succeeds, the
\* tokens between the opening token and the closing token it stops on hold
\* as many start-kind as stop-kind tokens, and no prefix of them holds more
\* stop-kind than start-kind tokens.
C33_Nesting ==
    (op = "Unwrap" /\ Opened) =>
        LET ns == ret.nesting
            ts == Visited(ret.pre)
            m == IndexAt(ts, curr.Position)
            inner == SubSeq(ts, 2, m - 1)
        IN  /\ \A i \in 1..Len(ns) : ns[i] >= 0
            /\ \A i \in 1..Len(ns) :
                  (i < Len(ns) \/ status # "ok") => ns[i] >= 1
            /\ (status = "ok" /\ ret.err = "") =>
                  /\ m >= 2
                  /\ ts[m].Kind = ret.arg.stop
                  /\ Count(inner, ret.arg.start) = Count(inner, ret.arg.stop)
                  /\ \A p \in 0..Len(inner) :
                        Count(SubSeq(inner, 1, p), ret.arg.stop)
                            <= Count(SubSeq(inner, 1, p), ret.arg.start)

C33_NestingWitness ==
    /\ op = "Unwrap"
    /\ status = "ok"
    /\ ret.err = ""
    /\ ret.arg = EnclosureParens
    /\ ret.nesting = <<2, 1, 0>>
    /\ ret.val = <<LParen, RParen>>
    /\ curr = UnicodeToken(RParen, 3)

\* The token t is the single-character token of the character ch.
Single(t, ch) == t = UnicodeToken(ch, t.Position)

\* The nesting count after the j-th visited token when only the
\* single-character tokens of the start and the stop character count.
KindDepth(ts, enc, j) ==
    1 + Cardinality({i \in 2..j : Single(ts[i], enc.start)})
      - Cardinality({i \in 2..j : Single(ts[i], enc.stop)})

\* C34: Unwrap matches the enclosure by token kind only.  The closing token
\* is the first single-character stop token at which the count over
\* single-character start and stop tokens is back at 0; a token of more
\* than one character before it (a String or Malformed literal, a negative
\* Number) lies whole inside the result, whatever start or stop characters
\* its literal holds.
C34_KindOnly ==
    (AfterUnwrap /\ Opened) =>
        LET ts == Visited(ret.pre)
            enc == ret.arg
            first == ret.pre.curr.Position + 1
            closers == {j \in 2..Len(ts) :
                           Single(ts[j], enc.stop) /\ KindDepth(ts, enc, j) = 0}
        IN  IF closers = {}
            THEN ret.err = MissingEnd
            ELSE LET m == CHOOSE j \in closers : \A i \in closers : j <= i
                 IN  /\ ret.err = ""
                     /\ curr = ts[m]
                     /\ ret.val = SubSeq(symbols, first + 1, ts[m].Position)
                     /\ \A i \in 2..(m - 1) :
                           SubSeq(ret.val, ts[i].Position - first + 1,
                                  ts[i].Position - first + Len(ts[i].Literal))
                               = ts[i].Literal

C34_KindOnlyWitness ==
    /\ AfterUnwrap
    /\ ret.arg = EnclosureParens
    /\ symbols = <<LParen, Quote, LetterA, RParen, Quote, RParen>>
    /\ ret.err = ""
    /\ ret.val = <<Quote, LetterA, RParen, Quote>>
    /\ curr = UnicodeToken(RParen, 5)

====
